---- MODULE Spec2Model ----
(***************************************************************************)
(* Model of src/app.py, the financial dashboard.                           *)
(*                                                                         *)
(* Two state machines share this module:                                   *)
(*   SpecRetry / FairSpecRetry : get_crypto_data_with_retry, one call of   *)
(*       it, together with the provider call it submits to a worker        *)
(*       thread (the provider is the environment: it may return, raise,    *)
(*       or stay running for ever).                                        *)
(*   Spec : one run of main(): init_api_clients, get_multi_asset_data      *)
(*       (fetch, combine, fill) and display_dashboard (daily resample).    *)
(*       In Spec a crypto fetch is one step whose result is one of the     *)
(*       terminal outcomes of the retry wrapper.                           *)
(*                                                                         *)
(* Timestamps are modelled at day granularity: a row key is a day number.  *)
(* An observation of column c at day d carries the value <<c, d>>, so a    *)
(* filled cell tells which observation it was copied from.                 *)
(***************************************************************************)
EXTENDS Integers, Sequences, FiniteSets, TLC

VARIABLES
    \* ---- get_crypto_data_with_retry ----
    max_retries,    \* parameter
    base_timeout,   \* parameter
    attempt,        \* loop variable of `for attempt in range(max_retries)`
    rpc,            \* where the wrapper is
    call,           \* the provider call submitted for the current attempt
    callErr,        \* the exception the provider call raised, if it did
    pending,        \* what is leaving the `with` block: a return or an exception
    timeouts,       \* history: the timeout each started attempt was given
    ends,           \* history: how each attempt ended, as seen by future.result
    warnings,       \* number of st.warning calls
    sleeps,         \* number of completed time.sleep calls
    propagated,     \* the exception the wrapper raised to its caller
    \* ---- main / get_multi_asset_data / display_dashboard ----
    pc,             \* where main is
    clients,        \* <<cg, fred>> as returned by init_api_clients
    initResp,       \* what happened inside init_api_clients
    resp,           \* per source: what the provider did (raise, or its index kind)
    yf_data,
    btc_data,
    eth_data,
    fred_series_data, \* name -> result of get_fred_data, or Unfetched
    fred_data,
    data,           \* return value of get_multi_asset_data
    daily_data,     \* display_dashboard's resampled table
    progress,       \* last value given to progress_bar.progress
    errors,         \* number of log_error calls
    caught,         \* the exception caught by the except of line 156, if any
    topError,       \* the top-level st.error of main, if any
    uncaught        \* the exception that ended the run, if any

retryVars == <<max_retries, base_timeout, attempt, rpc, call, callErr, pending,
               timeouts, ends, warnings, sleeps, propagated>>
mainVars == <<pc, clients, initResp, resp, yf_data, btc_data, eth_data,
              fred_series_data, fred_data, data, daily_data, progress, errors,
              caught, topError, uncaught>>
vars == <<retryVars, mainVars>>

(***************************************************************************)
(* Bounds                                                                  *)
(***************************************************************************)
MaxRetriesBound == 3
MaxBaseTimeout == 2
MaxDay == 3
MaxObs == 3

(***************************************************************************)
(* Program constants                                                       *)
(***************************************************************************)
DefaultMaxRetries == 3
DefaultBaseTimeout == 15

(***************************************************************************)
(* get_crypto_data_with_retry (src/app.py 49-70)                           *)
(***************************************************************************)
\* Exceptions and the return leaving the `with` block: a class (what an
\* `except` clause can see) and an origin (where it was raised).
NoExc == [cls |-> "none", origin |-> "none"]
ReturnDf == [cls |-> "return", origin |-> "normalize"]
AttemptTimeout == [cls |-> "TimeoutError", origin |-> "future.result"]
ExhaustedError == [cls |-> "TimeoutError", origin |-> "exhausted"]
NormalizeError == [cls |-> "Exception", origin |-> "normalize"]
\* What fetch_data itself can raise in the worker thread: any exception,
\* of the class concurrent.futures.TimeoutError or of another class.
CallErrors == {[cls |-> "Exception", origin |-> "fetch_data"],
               [cls |-> "TimeoutError", origin |-> "fetch_data"]}

RetryParams == 0..MaxRetriesBound
BaseTimeouts == (0..MaxBaseTimeout) \cup {DefaultBaseTimeout}

Terminal == {"Success", "FatalError", "ExhaustedRetries", "ReturnedNone"}

\* line 54: timeout = base_timeout * (2 ** attempt)
Timeout_Linear(i) == base_timeout * (i + 1)
Timeout(i) == base_timeout * (2 ^ i)

\* line 63: except concurrent.futures.TimeoutError
CaughtAsTimeout_Any(exc) == exc.cls \in {"TimeoutError", "Exception"}
CaughtAsTimeout(exc) == exc.cls = "TimeoutError"

\* line 64: if attempt < max_retries - 1
MoreAttempts(i) == i < max_retries - 1

\* lines 54-57: compute the timeout, open the executor, submit fetch_data
BeginAttempt(i) ==
    /\ attempt' = i
    /\ timeouts' = Append(timeouts, Timeout(i))
    /\ call' = "running"
    /\ callErr' = NoExc
    /\ pending' = NoExc
    /\ rpc' = "Waiting"

\* line 53: enter the loop; range(0) is empty and the function returns None
RetryStart ==
    /\ rpc = "Pending"
    /\ IF max_retries = 0
          THEN /\ rpc' = "ReturnedNone"
               /\ UNCHANGED <<attempt, timeouts, call, callErr, pending>>
          ELSE BeginAttempt(0)
    /\ UNCHANGED <<max_retries, base_timeout, ends, warnings, sleeps, propagated>>
    /\ UNCHANGED mainVars

\* line 51 in the worker thread: the provider answers (at any time, also
\* after the attempt's timeout fired)
ProviderReturns ==
    /\ call = "running"
    /\ call' = "returned"
    /\ UNCHANGED <<max_retries, base_timeout, attempt, rpc, callErr, pending,
                   timeouts, ends, warnings, sleeps, propagated>>
    /\ UNCHANGED mainVars

\* line 51 in the worker thread: the provider call raises
ProviderRaises ==
    /\ call = "running"
    /\ \E e \in CallErrors :
          /\ call' = "raised"
          /\ callErr' = e
    /\ UNCHANGED <<max_retries, base_timeout, attempt, rpc, pending,
                   timeouts, ends, warnings, sleeps, propagated>>
    /\ UNCHANGED mainVars

\* line 58: future.result returns the data within the timeout
ResultReady ==
    /\ rpc = "Waiting"
    /\ call = "returned"
    /\ rpc' = "Normalizing"
    /\ ends' = Append(ends, [how |-> "returned", exc |-> NoExc])
    /\ UNCHANGED <<max_retries, base_timeout, attempt, call, callErr, pending,
                   timeouts, warnings, sleeps, propagated>>
    /\ UNCHANGED mainVars

\* line 58: future.result re-raises what fetch_data raised
ResultRaises ==
    /\ rpc = "Waiting"
    /\ call = "raised"
    /\ pending' = callErr
    /\ rpc' = "ExitWith"
    /\ ends' = Append(ends, [how |-> "raised", exc |-> callErr])
    /\ UNCHANGED <<max_retries, base_timeout, attempt, call, callErr,
                   timeouts, warnings, sleeps, propagated>>
    /\ UNCHANGED mainVars

\* line 58: the timeout passes while fetch_data is still running
TimeoutFires ==
    /\ rpc = "Waiting"
    /\ call = "running"
    /\ pending' = AttemptTimeout
    /\ rpc' = "ExitWith"
    /\ ends' = Append(ends, [how |-> "timeout", exc |-> AttemptTimeout])
    /\ UNCHANGED <<max_retries, base_timeout, attempt, call, callErr,
                   timeouts, warnings, sleeps, propagated>>
    /\ UNCHANGED mainVars

\* lines 59-62: build the frame and return it, or fail building it
Normalize ==
    /\ rpc = "Normalizing"
    /\ \E r \in {ReturnDf, NormalizeError} :
          /\ pending' = r
          /\ ends' = IF r = NormalizeError
                        THEN [ends EXCEPT ![Len(ends)] =
                                 [how |-> "raised", exc |-> NormalizeError]]
                        ELSE ends
    /\ rpc' = "ExitWith"
    /\ UNCHANGED <<max_retries, base_timeout, attempt, call, callErr,
                   timeouts, warnings, sleeps, propagated>>
    /\ UNCHANGED mainVars

\* line 56: leaving `with ThreadPoolExecutor()` runs shutdown(wait=True),
\* which joins the worker thread: it returns only once fetch_data is over.
ShutdownDone == call # "running"

\* line 56 (__exit__), then lines 62-70: the return or the except clauses
ExitWith ==
    /\ rpc = "ExitWith"
    /\ ShutdownDone
    /\ IF pending.cls = "return"
          THEN /\ rpc' = "Success"
               /\ UNCHANGED <<warnings, propagated>>
          ELSE IF CaughtAsTimeout(pending)
          THEN IF MoreAttempts(attempt)
                  THEN /\ warnings' = warnings + 1
                       /\ rpc' = "Sleeping"
                       /\ UNCHANGED propagated
                  ELSE /\ rpc' = "ExhaustedRetries"
                       /\ propagated' = ExhaustedError
                       /\ UNCHANGED warnings
          ELSE /\ rpc' = "FatalError"
               /\ propagated' = pending
               /\ UNCHANGED warnings
    /\ UNCHANGED <<max_retries, base_timeout, attempt, call, callErr, pending,
                   timeouts, ends, sleeps>>
    /\ UNCHANGED mainVars

\* line 66, then the next iteration of the loop
SleepDone ==
    /\ rpc = "Sleeping"
    /\ sleeps' = sleeps + 1
    /\ BeginAttempt(attempt + 1)
    /\ UNCHANGED <<max_retries, base_timeout, ends, warnings, propagated>>
    /\ UNCHANGED mainVars

WrapperNext ==
    \/ RetryStart
    \/ ResultReady
    \/ ResultRaises
    \/ TimeoutFires
    \/ Normalize
    \/ ExitWith
    \/ SleepDone

ProviderNext ==
    \/ ProviderReturns
    \/ ProviderRaises

RetryIdle ==
    /\ attempt = 0
    /\ rpc = "Pending"
    /\ call = "none"
    /\ callErr = NoExc
    /\ pending = NoExc
    /\ timeouts = <<>>
    /\ ends = <<>>
    /\ warnings = 0
    /\ sleeps = 0
    /\ propagated = NoExc

(***************************************************************************)
(* Tables: pandas Series / DataFrame                                       *)
(***************************************************************************)
Days == 1..MaxDay
NaN == <<>>

StockCols == {"S&P 500", "NASDAQ", "EUR/USD", "GBP/USD"}
FredOrder == <<"US Unemployment Rate", "US Inflation Rate", "US GDP Growth">>
FredCols == {FredOrder[i] : i \in 1..Len(FredOrder)}
\* the sources whose provider returns a time index of its own kind
Sources == {"stocks"} \cup FredCols

\* A frame: st is "unset" (not computed yet), "None" or "frame".
Unset == [st |-> "unset", tz |-> "none", idx |-> {}, cols |-> {},
          cell |-> [p \in {} |-> NaN]]
None == [st |-> "None", tz |-> "none", idx |-> {}, cols |-> {},
         cell |-> [p \in {} |-> NaN]]
\* A frame whose every column is observed on every row of its index.
Observed(tz, cols, idx) ==
    [st |-> "frame", tz |-> tz, idx |-> idx, cols |-> cols,
     cell |-> [p \in cols \X idx |-> p]]

IsFrame(f) == f.st = "frame"

SetMax(S) == CHOOSE x \in S : \A y \in S : y <= x
SetMin(S) == CHOOSE x \in S : \A y \in S : x <= y

(***************************************************************************)
(* Fetchers                                                                *)
(***************************************************************************)
\* line 42: data.index = data.index.tz_convert('UTC'); a naive index makes
\* tz_convert raise TypeError
StockIndexTz_Kept(kind) == kind
StockIndexTz(kind) == IF kind = "aware" THEN "UTC" ELSE "TypeError"

\* line 60: pd.to_datetime(df['timestamp'], unit='ms', utc=True)
CryptoIndexTz == "UTC"

\* lines 89-91: tz_localize('UTC'); an aware index makes it raise TypeError
FredIndexTz(kind) == IF kind = "naive" THEN "UTC" ELSE "TypeError"

\* lines 38-46: kind is what yf.download did: "raise", or the kind of index
\* of the frame it returned
get_stock_data(kind, idx) ==
    IF kind = "raise" \/ StockIndexTz(kind) = "TypeError"
       THEN None
       ELSE Observed(StockIndexTz(kind), StockCols, idx)

\* lines 75-80 around lines 49-70: outcome is the terminal state of
\* get_crypto_data_with_retry
get_crypto_data(col, outcome, idx) ==
    IF outcome = "Success"
       THEN Observed(CryptoIndexTz, {col}, idx)
       ELSE None

\* lines 86-95
get_fred_data(name, kind, idx) ==
    IF kind = "raise" \/ FredIndexTz(kind) = "TypeError"
       THEN None
       ELSE Observed(FredIndexTz(kind), {name}, idx)

\* the points held by the frames fetched so far
Points(f) == Cardinality(f.idx)
RECURSIVE SumPoints(_)
SumPoints(S) ==
    IF S = {} THEN 0
    ELSE LET f == CHOOSE x \in S : TRUE IN Points(f) + SumPoints(S \ {f})
PointsUsed ==
    Points(yf_data) + Points(btc_data) + Points(eth_data)
      + SumPoints({[n |-> n, idx |-> fred_series_data[n].idx] : n \in FredCols})
\* what a provider may return now, within the bound on the points of a run
Indexes == {I \in SUBSET Days : Cardinality(I) + PointsUsed <= MaxObs}

(***************************************************************************)
(* Combining (lines 140-155) and resampling (line 164)                     *)
(***************************************************************************)
\* the tz of an index built from several: pandas refuses to join tz-naive
\* with tz-aware
JoinTz(tzs) == IF Cardinality(tzs) = 1 THEN CHOOSE z \in tzs : TRUE
               ELSE IF tzs = {} THEN "UTC" ELSE "TypeError"

\* line 140: pd.DataFrame({name: series or None}); a None value becomes a
\* column of that name with no value in it
FredFrame(series) ==
    LET ok == {n \in FredCols : IsFrame(series[n])}
        idx == UNION {series[n].idx : n \in ok}
    IN [st |-> "frame",
        tz |-> JoinTz({series[n].tz : n \in ok}),
        idx |-> idx,
        cols |-> FredCols,
        cell |-> [p \in FredCols \X idx |->
                    IF p[1] \in ok /\ p[2] \in series[p[1]].idx
                       THEN series[p[1]].cell[p] ELSE NaN]]

\* line 140: pandas raises ValueError when every value of the dict is None
\* ("If using all scalar values, you must pass an index")
FredFrameRaises(series) == \A n \in FredCols : ~IsFrame(series[n])

\* line 146
data_frames == {f \in {yf_data, btc_data, eth_data, fred_data} : f.st # "None"}

\* line 149: pd.concat(data_frames, axis=1): outer join on the index
ConcatIdx(frames) == UNION {f.idx : f \in frames}

Concat(frames) ==
    LET idx == ConcatIdx(frames)
        cols == UNION {f.cols : f \in frames}
        Owner(c) == CHOOSE f \in frames : c \in f.cols
    IN [st |-> "frame",
        tz |-> JoinTz({f.tz : f \in frames}),
        idx |-> idx,
        cols |-> cols,
        cell |-> [p \in cols \X idx |->
                    IF p[2] \in Owner(p[1]).idx
                       THEN Owner(p[1]).cell[p] ELSE NaN]]

\* line 155: .ffill(): per column, the last valid value carried forward
FFill(t) ==
    [t EXCEPT !.cell =
        [p \in t.cols \X t.idx |->
            IF t.cell[p] # NaN THEN t.cell[p]
            ELSE LET before == {e \in t.idx : e < p[2] /\ t.cell[<<p[1], e>>] # NaN}
                 IN IF before = {} THEN NaN
                    ELSE t.cell[<<p[1], SetMax(before)>>]]]

\* line 155: .bfill(): per column, the next valid value carried backward
BFill(t) ==
    [t EXCEPT !.cell =
        [p \in t.cols \X t.idx |->
            IF t.cell[p] # NaN THEN t.cell[p]
            ELSE LET after == {e \in t.idx : e > p[2] /\ t.cell[<<p[1], e>>] # NaN}
                 IN IF after = {} THEN NaN
                    ELSE t.cell[<<p[1], SetMin(after)>>]]]

\* line 155: combined_data.ffill().bfill()
Fill_BackwardFirst(t) == FFill(BFill(t))
Fill(t) == BFill(FFill(t))

\* line 164: data.resample('D').last(): one row per day from the first to
\* the last row of data; a day that has no row gets no value
Resample(t) ==
    LET idx == IF t.idx = {} THEN {} ELSE SetMin(t.idx)..SetMax(t.idx)
    IN [t EXCEPT !.idx = idx,
                 !.cell = [p \in t.cols \X idx |->
                             IF p[2] \in t.idx THEN t.cell[p] ELSE NaN]]

(***************************************************************************)
(* main (lines 211-230), get_multi_asset_data (99-159),                    *)
(* display_dashboard (162-208)                                             *)
(***************************************************************************)
\* lines 27-34: either constructor raising gives (None, None)
init_api_clients(what) ==
    IF what = "ok" THEN <<"client", "client">> ELSE <<"None", "None">>

\* line 218
InitApiClients ==
    /\ pc = "start"
    /\ \E what \in {"ok", "CoinGeckoAPI raises", "Fred raises"} :
          /\ initResp' = what
          /\ clients' = init_api_clients(what)
          /\ errors' = IF what = "ok" THEN errors ELSE errors + 1
    /\ pc' = "clients"
    /\ UNCHANGED <<resp, yf_data, btc_data, eth_data, fred_series_data,
                   fred_data, data, daily_data, progress, topError, uncaught>>
    /\ UNCHANGED <<caught, retryVars>>

\* lines 219, 225-226
MainClients ==
    /\ pc = "clients"
    /\ IF clients[1] # "None" /\ clients[2] # "None"
          THEN /\ pc' = "fetch_stock"
               /\ UNCHANGED topError
          ELSE /\ pc' = "footer"
               /\ topError' = "Failed to initialize API clients"
    /\ UNCHANGED <<clients, initResp, resp, yf_data, btc_data, eth_data,
                   fred_series_data, fred_data, data, daily_data, progress,
                   errors, uncaught>>
    /\ UNCHANGED <<caught, retryVars>>

\* lines 107-115
FetchStock ==
    /\ pc = "fetch_stock"
    /\ \E kind \in {"raise", "naive", "aware"}, idx \in Indexes :
          LET r == get_stock_data(kind, idx) IN
          /\ IsFrame(r) \/ idx = {}
          /\ yf_data' = r
          /\ resp' = [resp EXCEPT !["stocks"] = kind]
          /\ errors' = IF IsFrame(r) THEN errors ELSE errors + 1
    /\ progress' = 25
    /\ pc' = "fetch_btc"
    /\ UNCHANGED <<clients, initResp, btc_data, eth_data, fred_series_data,
                   fred_data, data, daily_data, topError, uncaught>>
    /\ UNCHANGED <<caught, retryVars>>

\* lines 118-124
FetchBitcoin ==
    /\ pc = "fetch_btc"
    /\ \E outcome \in {"Success", "FatalError", "ExhaustedRetries"},
          idx \in Indexes :
          LET r == get_crypto_data("Bitcoin", outcome, idx) IN
          /\ IsFrame(r) \/ idx = {}
          /\ btc_data' = r
          /\ errors' = IF IsFrame(r) THEN errors ELSE errors + 1
          /\ progress' = IF IsFrame(r) THEN 50 ELSE progress
    /\ pc' = "fetch_eth"
    /\ UNCHANGED <<clients, initResp, resp, yf_data, eth_data, fred_series_data,
                   fred_data, data, daily_data, topError, uncaught>>
    /\ UNCHANGED <<caught, retryVars>>

\* lines 126-130
FetchEthereum ==
    /\ pc = "fetch_eth"
    /\ \E outcome \in {"Success", "FatalError", "ExhaustedRetries"},
          idx \in Indexes :
          LET r == get_crypto_data("Ethereum", outcome, idx) IN
          /\ IsFrame(r) \/ idx = {}
          /\ eth_data' = r
          /\ errors' = IF IsFrame(r) THEN errors ELSE errors + 1
          /\ progress' = IF IsFrame(r) THEN 75 ELSE progress
    /\ pc' = "fetch_fred"
    /\ UNCHANGED <<clients, initResp, resp, yf_data, btc_data, fred_series_data,
                   fred_data, data, daily_data, topError, uncaught>>
    /\ UNCHANGED <<caught, retryVars>>

\* the next series the dict comprehension of line 140 fetches
NextFred ==
    LET left == {i \in 1..Len(FredOrder) : fred_series_data[FredOrder[i]].st = "unset"}
    IN IF left = {} THEN 0 ELSE SetMin(left)

\* line 140: one get_fred_data call of the dict comprehension
FetchFred ==
    /\ pc = "fetch_fred"
    /\ NextFred # 0
    /\ \E kind \in {"raise", "naive", "aware"}, idx \in Indexes :
          LET name == FredOrder[NextFred]
              r == get_fred_data(name, kind, idx) IN
          /\ IsFrame(r) \/ idx = {}
          /\ fred_series_data' = [fred_series_data EXCEPT ![name] = r]
          /\ resp' = [resp EXCEPT ![name] = kind]
          /\ errors' = IF IsFrame(r) THEN errors ELSE errors + 1
    /\ UNCHANGED <<pc, clients, initResp, yf_data, btc_data, eth_data,
                   fred_data, data, daily_data, progress, topError, uncaught>>
    /\ UNCHANGED <<caught, retryVars>>

\* lines 140-141: pd.DataFrame(...) over the three results; it is outside
\* the try of line 144, so what it raises leaves get_multi_asset_data and main
BuildFredFrame ==
    /\ pc = "fetch_fred"
    /\ NextFred = 0
    /\ IF FredFrameRaises(fred_series_data)
          THEN /\ pc' = "crashed"
               /\ uncaught' = "ValueError: If using all scalar values, you must pass an index"
               /\ UNCHANGED <<fred_data, progress>>
          ELSE /\ fred_data' = FredFrame(fred_series_data)
               /\ progress' = 100
               /\ pc' = "combine"
               /\ UNCHANGED uncaught
    /\ UNCHANGED <<clients, initResp, resp, yf_data, btc_data, eth_data,
                   fred_series_data, data, daily_data, errors, topError>>
    /\ UNCHANGED <<caught, retryVars>>

\* lines 144-159
Combine ==
    /\ pc = "combine"
    /\ IF data_frames = {}
          THEN /\ data' = None
               /\ caught' = "ValueError: No data available to combine"
               /\ errors' = errors + 1
          ELSE IF Concat(data_frames).tz = "TypeError"
          THEN /\ data' = None
               /\ caught' = "TypeError: Cannot join tz-naive with tz-aware DatetimeIndex"
               /\ errors' = errors + 1
          ELSE /\ data' = Fill(Concat(data_frames))
               /\ UNCHANGED <<caught, errors>>
    /\ pc' = "returned"
    /\ UNCHANGED <<clients, initResp, resp, yf_data, btc_data, eth_data,
                   fred_series_data, fred_data, daily_data, progress, topError,
                   uncaught>>
    /\ UNCHANGED retryVars

\* line 140 made a column of None objects for a macro series that failed:
\* whether pct_change (line 167) accepts such a column depends on the pandas
\* version, so both outcomes are possible
HasObjectColumn == \E n \in FredCols : fred_series_data[n].st = "None"

\* lines 221-224 and display_dashboard: line 164, then line 179 reads
\* daily_data.iloc[-1], which raises IndexError on a table without rows
MainData ==
    /\ pc = "returned"
    /\ IF data.st = "None"
          THEN /\ topError' = "Failed to fetch or process data"
               /\ pc' = "footer"
               /\ UNCHANGED <<daily_data, uncaught>>
          ELSE \/ /\ data.idx # {}
                  /\ daily_data' = Resample(data)
                  /\ pc' = "footer"
                  /\ UNCHANGED <<topError, uncaught>>
               \/ /\ data.idx = {}
                  /\ daily_data' = Resample(data)
                  /\ pc' = "crashed"
                  /\ uncaught' = "IndexError: single positional indexer is out-of-bounds"
                  /\ UNCHANGED topError
               \/ /\ data.idx # {}
                  /\ HasObjectColumn
                  /\ daily_data' = Resample(data)
                  /\ pc' = "crashed"
                  /\ uncaught' = "TypeError: unsupported operand type(s)"
                  /\ UNCHANGED topError
    /\ UNCHANGED <<clients, initResp, resp, yf_data, btc_data, eth_data,
                   fred_series_data, fred_data, data, progress, errors>>
    /\ UNCHANGED <<caught, retryVars>>

\* lines 229-230
Footer ==
    /\ pc = "footer"
    /\ pc' = "done"
    /\ UNCHANGED <<clients, initResp, resp, yf_data, btc_data, eth_data,
                   fred_series_data, fred_data, data, daily_data, progress,
                   errors, topError, uncaught>>
    /\ UNCHANGED <<caught, retryVars>>

MainIdle ==
    /\ pc = "start"
    /\ clients = <<"unset", "unset">>
    /\ initResp = "unset"
    /\ resp = [s \in Sources |-> "unset"]
    /\ yf_data = Unset
    /\ btc_data = Unset
    /\ eth_data = Unset
    /\ fred_series_data = [n \in FredCols |-> Unset]
    /\ fred_data = Unset
    /\ data = Unset
    /\ daily_data = Unset
    /\ progress = 0
    /\ errors = 0
    /\ caught = "none"
    /\ topError = "none"
    /\ uncaught = "none"

(***************************************************************************)
(* Specifications                                                          *)
(***************************************************************************)
\* one run of main()
Init ==
    /\ MainIdle
    /\ RetryIdle
    /\ max_retries = DefaultMaxRetries
    /\ base_timeout = DefaultBaseTimeout

Next ==
    \/ InitApiClients
    \/ MainClients
    \/ FetchStock
    \/ FetchBitcoin
    \/ FetchEthereum
    \/ FetchFred
    \/ BuildFredFrame
    \/ Combine
    \/ MainData
    \/ Footer

Spec == Init /\ [][Next]_vars

\* one call of get_crypto_data_with_retry
InitRetry ==
    /\ MainIdle
    /\ RetryIdle
    /\ max_retries \in RetryParams
    /\ base_timeout \in BaseTimeouts

NextRetry ==
    \/ RetryStart
    \/ ResultReady
    \/ ResultRaises
    \/ TimeoutFires
    \/ Normalize
    \/ ExitWith
    \/ SleepDone
    \/ ProviderReturns
    \/ ProviderRaises

SpecRetry == InitRetry /\ [][NextRetry]_vars

\* the wrapper's thread keeps running (its timeout and its sleep end); nothing
\* makes the provider answer
FairSpecRetry == SpecRetry /\ WF_vars(WrapperNext)

(***************************************************************************)
(* Claims about get_crypto_data_with_retry (SpecRetry, FairSpecRetry)      *)
(***************************************************************************)
AllTimedOut == \A i \in 1..Len(ends) : ends[i].how = "timeout"

\* C1: every attempt that is started, the (i+1)-th one counting from 1, is
\* given the timeout base_timeout * 2^i; and with max_retries >= 1, when
\* every attempt so far ended in an attempt timeout, no more than max_retries
\* attempts are started and the only way the wrapper ends is ExhaustedRetries,
\* after exactly max_retries attempts, raising the timeout error.
C1_RetryBound ==
    /\ \A i \in 1..Len(timeouts) : timeouts[i] = base_timeout * (2 ^ (i - 1))
    /\ (max_retries >= 1 /\ AllTimedOut) =>
          /\ Len(timeouts) <= max_retries
          /\ rpc \in Terminal =>
                /\ rpc = "ExhaustedRetries"
                /\ Len(timeouts) = max_retries
                /\ Len(ends) = max_retries
                /\ propagated = ExhaustedError

\* the default call (3 retries, 15 s) has timed out three times, with
\* timeouts 15, 30 and 60, and has ended
C1_Witness ==
    /\ rpc = "ExhaustedRetries"
    /\ AllTimedOut
    /\ max_retries = DefaultMaxRetries
    /\ base_timeout = DefaultBaseTimeout
    /\ timeouts = <<15, 30, 60>>

\* the attempt i ended with exception-or-return e; it is the last attempt,
\* no delay follows it and e is what the caller gets
IsLastAndPropagates(i) ==
    /\ Len(timeouts) = i
    /\ sleeps = i - 1
    /\ rpc \in {"ExitWith", "FatalError"}
    /\ rpc = "FatalError" => propagated = ends[i].exc

\* C2 (as claimed): whenever fetch_data or the normalization raises an error
\* (anything future.result or lines 59-62 raise that is not the attempt's
\* timeout), that attempt is the last, no delay is taken and that error
\* reaches the caller; only an attempt timeout leads to another attempt.
C2_OnlyAttemptTimeoutRetried ==
    /\ \A i \in 1..Len(ends) : ends[i].how = "raised" => IsLastAndPropagates(i)
    /\ \A i \in 1..Len(ends) : i < Len(timeouts) => ends[i].how = "timeout"

\* C2 (amended): whenever fetch_data or the normalization raises an error
\* whose class is not concurrent.futures.TimeoutError, that attempt is the
\* last, no delay is taken and that error reaches the caller unchanged; only
\* an exception of class concurrent.futures.TimeoutError (the attempt's
\* timeout, or one raised by fetch_data itself) leads to another attempt.
C2_NonTimeoutClassShortCircuit ==
    /\ \A i \in 1..Len(ends) :
          (ends[i].how = "raised" /\ ends[i].exc.cls # "TimeoutError")
             => IsLastAndPropagates(i)
    /\ \A i \in 1..Len(ends) :
          i < Len(timeouts) => ends[i].exc.cls = "TimeoutError"

\* after one attempt timeout, fetch_data raised an ordinary error on the
\* second attempt and the wrapper ended with that error
C2_Witness ==
    /\ rpc = "FatalError"
    /\ Len(ends) = 2
    /\ ends[1].how = "timeout"
    /\ ends[2].how = "raised"
    /\ ends[2].exc.cls = "Exception"
    /\ propagated = ends[2].exc
    /\ sleeps = 1

\* C9: once an attempt's timeout has fired while fetch_data is still
\* running, the wrapper moves on (to the delay, the next attempt or the end)
\* whether or not fetch_data ever finishes.
C9_AbandonOnTimeout ==
    (rpc = "ExitWith" /\ pending = AttemptTimeout /\ call = "running")
        ~> (rpc # "ExitWith")

(***************************************************************************)
(* Claims about main and get_multi_asset_data (Spec)                       *)
(***************************************************************************)
FetchResults ==
    {yf_data, btc_data, eth_data} \cup {fred_series_data[n] : n \in FredCols}
FetchesDone == \A f \in FetchResults : f.st # "unset"
Successes == {f \in FetchResults : IsFrame(f)}
SuccessCols == UNION {f.cols : f \in Successes}
\* get_multi_asset_data is over: it returned, or an exception left it
GmadOver == FetchesDone /\ pc \notin {"fetch_fred", "combine"}

\* C3: once get_multi_asset_data is over with at least one fetch having
\* succeeded, it has returned a table (no exception left it, it did not
\* return None) whose columns are exactly those of the fetches that succeeded.
C3_ExclusionOnFailure ==
    (GmadOver /\ Successes # {}) =>
        /\ data.st = "frame"
        /\ data.cols = SuccessCols

\* C4: once get_multi_asset_data is over with every fetch having failed, the
\* 'no data available' error was raised and caught, None was returned, no
\* exception ended the run, display_dashboard did not run, and main ends
\* with its top-level error.
C4_NoDataAvailable ==
    (GmadOver /\ Successes = {}) =>
        /\ uncaught = "none"
        /\ caught = "ValueError: No data available to combine"
        /\ data.st = "None"
        /\ daily_data.st = "unset"
        /\ pc = "done" => topError = "Failed to fetch or process data"

FirstDates == {SetMin(f.idx) : f \in Successes}
LastDates == {SetMax(f.idx) : f \in Successes}

\* C5: when every fetch that succeeded holds at least one observation and a
\* table is returned, its rows are the union of the rows of the series that
\* were fetched, and every cell in a row between the latest first date and the
\* earliest last date holds a value.
C5_MergeCompleteness ==
    (data.st = "frame" /\ Successes # {} /\ \A f \in Successes : f.idx # {}) =>
        /\ data.idx = UNION {f.idx : f \in Successes}
        /\ \A c \in data.cols, d \in data.idx :
              (SetMax(FirstDates) <= d /\ d <= SetMin(LastDates))
                 => data.cell[<<c, d>>] # NaN

\* the days on which the source of column c has an observation
ObsDays(c) ==
    LET from == {f \in Successes : c \in f.cols}
    IN UNION {f.idx : f \in from}
Earlier(c, d) == {e \in ObsDays(c) : e < d}
Later(c, d) == {e \in ObsDays(c) : e > d}

\* C6: in the table get_multi_asset_data returns every observed cell keeps
\* its value; an empty cell with an earlier observation in its column holds
\* the most recent earlier one (also when a later one exists); an empty cell
\* with no earlier observation holds the earliest later one of its column.
C6_FillDirection ==
    (pc = "returned" /\ data.st = "frame") =>
        \A c \in data.cols :
            LET obs == ObsDays(c) IN
            \A d \in data.idx :
                LET earlier == {e \in obs : e < d}
                    later == {e \in obs : e > d}
                    v == data.cell[<<c, d>>]
                IN IF d \in obs THEN v = <<c, d>>
                   ELSE IF earlier # {} THEN v = <<c, SetMax(earlier)>>
                   ELSE later # {} => v = <<c, SetMin(later)>>

\* a returned table with a gap that has an observation on both sides, and a
\* gap that has observations after it only
C6_Witness ==
    /\ pc = "returned"
    /\ data.st = "frame"
    /\ \E c \in data.cols, d \in data.idx :
          d \notin ObsDays(c) /\ Earlier(c, d) # {} /\ Later(c, d) # {}
    /\ \E c \in data.cols, d \in data.idx :
          d \notin ObsDays(c) /\ Earlier(c, d) = {} /\ Later(c, d) # {}

\* C7: the table the statistics are computed on has one row for each day
\* from the first to the last day any source has an observation, and in each
\* of these rows every column that has an observation holds a value.
C7_DailyGapFree ==
    (daily_data.st = "frame" /\ data.idx # {}) =>
        /\ daily_data.idx = SetMin(data.idx)..SetMax(data.idx)
        /\ \A c \in daily_data.cols, d \in daily_data.idx :
              ObsDays(c) # {} => daily_data.cell[<<c, d>>] # NaN

\* C8: every frame a fetcher returned, and every frame given to pd.concat,
\* has a UTC index: whatever kind of index the provider returned, the fetcher
\* returned a UTC-indexed frame or None.
C8_TimezoneInvariant ==
    /\ \A f \in FetchResults : IsFrame(f) => f.tz = "UTC"
    /\ pc \in {"combine", "returned"} => \A f \in data_frames : f.tz = "UTC"

\* the combine step is reached after the equities provider returned a naive
\* index (reported as a failure), one macro series came with a naive index
\* (localized to UTC) and another with an aware index (reported as a failure)
C8_Witness ==
    /\ pc = "combine"
    /\ resp["stocks"] = "naive"
    /\ yf_data.st = "None"
    /\ \E n \in FredCols : resp[n] = "naive" /\ fred_series_data[n].tz = "UTC"
    /\ \E n \in FredCols : resp[n] = "aware" /\ fred_series_data[n].st = "None"
    /\ IsFrame(btc_data)

\* C10: when only the macro provider's client fails to initialize, the run
\* still fetches the equities and the crypto data and renders them.
C10_ClientInitIsolation ==
    (pc = "done" /\ initResp = "Fred raises") =>
        /\ yf_data.st # "unset"
        /\ btc_data.st # "unset"
        /\ eth_data.st # "unset"
        /\ (Successes # {} => daily_data.st = "frame")

====
